---------------------------- MODULE Spec2Model ----------------------------
(***************************************************************************)
(* Report submission pipeline and classification cache of the waste        *)
(* reporting backend: routes/reportRoutes.js, services/                    *)
(* classificationService.js and models/Report.js.                          *)
(*                                                                         *)
(* Confidences are kept in thousandths (0.70 is 700), so every comparison  *)
(* of the source against a decimal literal is an integer comparison here.  *)
(* Every await of a handler is a point where other handlers may run, so a  *)
(* handler is one action per segment between two awaits.                   *)
(***************************************************************************)
EXTENDS Integers, Sequences, FiniteSets, TLC

---------------------------------------------------------------------------
(* Bounds of the model *)

\* requests the environment sends in one behaviour of the pipeline
MaxRequests == 2
\* calls of classifyImage in one behaviour of the cache specification
MaxCalls == 3
\* detections in one upstream response
MaxDetections == 2
\* supervisor requests in one behaviour of the lifecycle specification
MaxTransitions == 3
\* supervisor requests in one behaviour of the specification of the edges:
\* one more than the three a report needs to reach permanent-resolved
MaxEdgeRequests == 4
\* creations and deletions in one behaviour of the accounting specification
MaxOperations == 3

---------------------------------------------------------------------------
(* Program constants *)

\* classificationService.js: const MIN_CONFIDENCE = 0.65
MIN_CONFIDENCE == 650
\* classificationService.js: const HIGH_CONFIDENCE_THRESHOLD = 0.85
HIGH_CONFIDENCE_THRESHOLD == 850
\* classificationService.js: const isWaste = maxConfidence >= 0.25
WASTE_FLOOR == 250
\* classificationService.js: det.class === 1
WASTE_CLASS == 1
\* reportRoutes.js: classification.confidence < 0.7
ADMISSION_THRESHOLD == 700
\* reportRoutes.js: buffer.length > 5 * 1024 * 1024
MAX_IMAGE_BYTES == 5 * 1024 * 1024

\* the JavaScript value undefined (a field the request body does not carry)
Undefined == "<undefined>"

---------------------------------------------------------------------------
(* Request bodies *)

Users == {"u1", "u2"}

\* data-URL prefixes an image string may start with ("" is none)
Prefixes == {"", "data:image/png;base64,", "data:image/jpeg;base64,"}

\* Payloads that follow the prefix.  "imgA" and "imgB" are small base64
\* texts of different bytes, "limit" decodes to exactly 5 MiB, "huge" to one
\* byte more, "bad" holds characters outside the base64 alphabet and
\* "hugebad" is "huge" followed by such a character.
Payloads == {"", "imgA", "imgB", "limit", "huge", "bad", "hugebad"}

\* Buffer.from(base64Data, 'base64').length
DecodedLength(payload) ==
  CASE payload = "" -> 0
    [] payload = "imgA" -> 3
    [] payload = "imgB" -> 3
    [] payload = "limit" -> MAX_IMAGE_BYTES
    [] payload = "huge" -> MAX_IMAGE_BYTES + 1
    [] payload = "bad" -> 0
    [] payload = "hugebad" -> MAX_IMAGE_BYTES + 1

\* the payload matches [A-Za-z0-9+/=]+
Base64Charset(payload) == payload \in {"imgA", "imgB", "limit", "huge"}

\* an image field: undefined, or the string prefix \o payload
ImageUndefined == [kind |-> "undefined", prefix |-> "", payload |-> ""]
ImageString(prefix, payload) ==
  [kind |-> "string", prefix |-> prefix, payload |-> payload]

\* a coordinate field: undefined, a non-numeric string, or a number
CoordUndefined == [t |-> "undefined", v |-> 0]
CoordText == [t |-> "string", v |-> 0]
CoordNumber(n) == [t |-> "number", v |-> n]

\* parseFloat(latitude): NaN for a non-numeric string
parseFloat(c) ==
  IF c.t = "number" THEN [nan |-> FALSE, v |-> c.v] ELSE [nan |-> TRUE, v |-> 0]

\* !x for a text field: undefined and the empty string are falsy
Falsy(x) == x \in {Undefined, ""}

\* !image
ImageFalsy(image) ==
  image.kind = "undefined" \/ (image.prefix = "" /\ image.payload = "")

\* image.replace(/^data:image\/\w+;base64,/, '')
StripPrefix(image) == image.payload

\* /^(data:image\/\w+;base64,)?[A-Za-z0-9+/=]+$/.test(image)
ImageFormatOk(image) == Base64Charset(image.payload)

\* lines 33-42: the missing field names, in the order they are pushed
MissingFields(body) ==
  (IF Falsy(body.title) THEN <<"title">> ELSE <<>>)
  \o (IF ImageFalsy(body.image) THEN <<"image">> ELSE <<>>)
  \o (IF Falsy(body.details) THEN <<"details">> ELSE <<>>)
  \o (IF Falsy(body.address) THEN <<"address">> ELSE <<>>)
  \o (IF body.latitude.t = "undefined" \/ body.longitude.t = "undefined"
        THEN <<"location">> ELSE <<>>)

\* lat < -90 || lat > 90 || lon < -180 || lon > 180
OutOfRange(lat, lon) == lat < -90 \/ lat > 90 \/ lon < -180 \/ lon > 180

\* line 24 with image undefined: the message of the TypeError of
\* undefined.replace, which line 190 puts in the body of the 500
ReplaceOfUndefined == "Cannot read properties of undefined (reading 'replace')"

\* The synchronous checks of router.post('/') up to line 81: the response
\* they end with, or status 0 when the submission passes them all.
Validate(body) ==
  LET lat == parseFloat(body.latitude)
      lon == parseFloat(body.longitude)
      missing == MissingFields(body)
  IN  IF body.image.kind = "undefined"
        \* image.replace throws a TypeError, caught at line 180 and
        \* answered with its message at line 190
        THEN [status |-> 500, code |-> "INTERNAL_SERVER_ERROR", missing |-> <<>>,
              error |-> ReplaceOfUndefined]
      ELSE IF DecodedLength(StripPrefix(body.image)) > MAX_IMAGE_BYTES
        THEN [status |-> 413, code |-> "IMAGE_TOO_LARGE", missing |-> <<>>, error |-> ""]
      ELSE IF Len(missing) > 0
        THEN [status |-> 400, code |-> "MISSING_FIELDS", missing |-> missing, error |-> ""]
      ELSE IF lat.nan \/ lon.nan
        THEN [status |-> 400, code |-> "INVALID_COORDINATES", missing |-> <<>>, error |-> ""]
      ELSE IF OutOfRange(lat.v, lon.v)
        THEN [status |-> 400, code |-> "INVALID_COORDINATES_RANGE", missing |-> <<>>, error |-> ""]
      ELSE IF ~ImageFormatOk(body.image)
        THEN [status |-> 400, code |-> "INVALID_IMAGE_FORMAT", missing |-> <<>>, error |-> ""]
      ELSE [status |-> 0, code |-> "", missing |-> <<>>, error |-> ""]

---------------------------------------------------------------------------
(* classifyImage: from the upstream response to the verdict *)

\* confidences a detection may carry, around every threshold of the source
Confidences == {0, 249, 250, 649, 650, 699, 700, 849, 850, 1000}

\* a detection of the upstream response: {class, confidence}
Detections == [class : {0, 1}, confidence : Confidences]

RECURSIVE SeqsUpTo(_, _)
SeqsUpTo(S, n) ==
  IF n = 0 THEN {<<>>}
  ELSE LET shorter == SeqsUpTo(S, n - 1)
       IN  shorter \cup {Append(q, d) : q \in {x \in shorter : Len(x) = n - 1}, d \in S}

DetectionLists == SeqsUpTo(Detections, MaxDetections)

\* The parsed JSON of a 2xx response.  The list is under data.images[0].results
\* ("images"), under data.predictions[0].detections ("predictions"), or under
\* neither ("neither": the list is ignored).
Responses == [shape : {"images", "predictions", "neither"}, list : DetectionLists]

\* lines 61-66
ExtractDetections(data) ==
  IF data.shape = "images" THEN data.list
  ELSE IF data.shape = "predictions" THEN data.list
  ELSE <<>>

\* a filter that keeps the detections of every class
WasteDetectionsAny(detections) == SelectSeq(detections, LAMBDA det : det.class >= 0)

\* line 69: detections.filter(det => det.class === 1)
WasteDetections(detections) == SelectSeq(detections, LAMBDA det : det.class = WASTE_CLASS)

RECURSIVE MathMax(_)
\* Math.max(...values) of a non-empty list
MathMax(values) ==
  IF Len(values) = 1 THEN Head(values)
  ELSE LET rest == MathMax(Tail(values))
       IN  IF Head(values) >= rest THEN Head(values) ELSE rest

\* lines 70-72
MaxConfidence(detections) ==
  LET waste == WasteDetections(detections)
  IN  IF Len(waste) > 0
        THEN MathMax([i \in 1..Len(waste) |-> waste[i].confidence])
        ELSE 0

\* line 74
IsWaste(maxConfidence) == maxConfidence >= WASTE_FLOOR

\* tiers whose high boundary is exclusive (>= written as >)
VerificationExclusive(maxConfidence) ==
  IF IsWaste(maxConfidence)
    THEN IF maxConfidence > HIGH_CONFIDENCE_THRESHOLD THEN "high_confidence"
         ELSE IF maxConfidence >= MIN_CONFIDENCE THEN "medium_confidence"
         ELSE "unverified"
    ELSE "unverified"

\* lines 75-83
Verification(maxConfidence) ==
  IF IsWaste(maxConfidence)
    THEN IF maxConfidence >= HIGH_CONFIDENCE_THRESHOLD THEN "high_confidence"
         ELSE IF maxConfidence >= MIN_CONFIDENCE THEN "medium_confidence"
         ELSE "unverified"
    ELSE "unverified"

\* lines 85-93: the result object
Result(maxConfidence) ==
  [isWaste |-> IsWaste(maxConfidence),
   label |-> IF IsWaste(maxConfidence) THEN "waste" ELSE "non-waste",
   confidence |-> maxConfidence,
   verification |-> Verification(maxConfidence),
   isHighConfidence |-> maxConfidence >= HIGH_CONFIDENCE_THRESHOLD,
   isVerifiedWaste |-> IsWaste(maxConfidence) /\ maxConfidence >= HIGH_CONFIDENCE_THRESHOLD,
   modelVersion |-> "YOLOv8"]

\* lines 58-93: the verdict of a parsed 2xx response
Classify(data) == Result(MaxConfidence(ExtractDetections(data)))

\* no verdict: the variable classification of the route before it is assigned
NoVerdict == [label |-> "<undefined>"]

\* lines 100-108: the error classifyImage throws for a failure of the call.
\* "abort" is the AbortError of the 30 s timer, "refused" and "notfound" are
\* connection errors (ECONNREFUSED, ENOTFOUND), "status" is a non-2xx
\* response and "json" a body that is not JSON.
Failures == {"abort", "refused", "notfound", "status", "json"}

ClassifyError(failure) ==
  CASE failure = "abort" -> "SERVICE_TIMEOUT"
    [] failure \in {"refused", "notfound"} -> "SERVICE_DOWN"
    [] failure = "status" -> "SERVICE_ERROR: API_ERROR: 500 - upstream"
    [] failure = "json" -> "SERVICE_ERROR: invalid json response body"

\* line 11: createHash('md5').update(imageBase64).digest('hex').  The digest
\* is taken over the whole string, prefix included; distinct strings have
\* distinct digests (collisions of md5 are not modelled).
Fingerprint(image) == <<"md5", image.prefix, image.payload>>

---------------------------------------------------------------------------
(* The route's decisions *)

\* a gate that refuses the threshold itself (< written as <=)
AdmissionGateStrict(classification) ==
  IF ~classification.isWaste THEN "NOT_WASTE"
  ELSE IF classification.confidence <= ADMISSION_THRESHOLD THEN "LOW_CONFIDENCE"
  ELSE ""

\* reportRoutes.js lines 88-102: the rejection a verdict ends the submission
\* with, or "" when the submission goes on to the upload
AdmissionGate(classification) ==
  IF ~classification.isWaste THEN "NOT_WASTE"
  ELSE IF classification.confidence < ADMISSION_THRESHOLD THEN "LOW_CONFIDENCE"
  ELSE ""

\* messages the object storage rejects an upload with
UploadErrors == {"Request Timeout"}

\* lines 128-140: the response to a rejected Promise.race
UploadFailure(message) ==
  IF message = "CLOUDINARY_TIMEOUT"
    THEN [status |-> 504, code |-> "CLOUDINARY_TIMEOUT", error |-> ""]
    ELSE [status |-> 500, code |-> "CLOUDINARY_ERROR", error |-> message]

\* line 142: reportType || 'standard'
FinalReportType(reportType) ==
  IF Falsy(reportType) THEN "standard" ELSE reportType

\* an award that knows no category: always the default
PointsToAddFlat(finalReportType) == IF Falsy(finalReportType) THEN 10 ELSE 10

\* lines 164-165: pointsMap[finalReportType] || 10
PointsToAdd(finalReportType) ==
  CASE finalReportType = "standard" -> 10
    [] finalReportType = "hazardous" -> 20
    [] finalReportType = "large" -> 15
    [] OTHER -> 10

\* a deduction that knows no category: always the default
PointsToDeductFlat(reportType) == IF Falsy(reportType) THEN 10 ELSE 10

\* lines 281-289: report.reportType ? pointsMap[report.reportType] || 10 : 10
PointsToDeduct(reportType) ==
  IF Falsy(reportType) THEN 10
  ELSE CASE reportType = "standard" -> 10
         [] reportType = "hazardous" -> 20
         [] reportType = "large" -> 15
         [] OTHER -> 10

---------------------------------------------------------------------------
(* models/Report.js *)

\* the paths reportSchema declares (lines 3-101)
SchemaPaths ==
  {"title", "image", "publicId", "details", "location", "address",
   "createdTime", "user", "photoTimestamp", "reportType", "status",
   "outOfScopeReason", "outOfScopeBy", "outOfScopeAt", "resolvedImage",
   "resolvedPublicId", "resolvedLocation", "resolvedAddress", "resolvedBy",
   "assignedTo", "assignedAt", "assignedMsg", "distanceToReported",
   "permanentlyResolvedAt", "permanentlyResolvedBy", "resolvedAt",
   "rejectionReason", "rejectedBy", "rejectedAt"}

\* reportType: enum (line 53)
ReportTypes == {"standard", "hazardous", "large"}

\* status: enum (line 58)
Statuses ==
  {"pending", "in-progress", "resolved", "rejected", "permanent-resolved",
   "out-of-scope"}

\* A value given to the constructor under a path: the schema is strict
\* (the default, no option of line 102 changes it), so a path the schema
\* does not declare is dropped from the document.
Cast(path, value) == IF path \in SchemaPaths THEN value ELSE Undefined

\* the same for a path that holds a storage id (0 is no id)
CastId(path, value) == IF path \in SchemaPaths THEN value ELSE 0

\* the same for a path that holds an object
NullObject == [kind |-> "null"]
UndefinedObject == [kind |-> "undefined"]
CastObject(path, value) == IF path \in SchemaPaths THEN value ELSE UndefinedObject

\* reportRoutes.js lines 156-160: the object given under aiVerification
Snapshot(classification) ==
  [kind |-> "object",
   isWaste |-> classification.isWaste,
   confidence |-> classification.confidence,
   verification |-> classification.verification]

\* a text of white space only, which passes the checks of the route for a
\* missing field (it is truthy) and which trim() empties
Blank == "   "

\* String.prototype.trim of the texts of the requests (lines 144, 147, 148)
Trim(text) == IF text = Blank THEN "" ELSE text

\* the Date of a text that is no date: Invalid Date
InvalidDate == "Invalid Date"

\* the Date of new Date() (line 154)
DateNow == "date"

\* the texts a request may give as photoTimestamp: none, a date, no date
PhotoTimestamps == {Undefined, "2024-01-01T00:00:00Z", "x"}

\* line 154: photoTimestamp ? new Date(photoTimestamp) : new Date()
NewDate(photoTimestamp) ==
  IF Falsy(photoTimestamp) THEN DateNow
  ELSE IF photoTimestamp = "x" THEN InvalidDate
  ELSE photoTimestamp

\* Report.js lines 70-76: the document of a nested path with an array
\* member, coordinates: [Number], whose default is the empty array
EmptyLocation == "{coordinates: []}"

\* reportRoutes.js lines 143-161, new Report({...}): the document of a
\* submission by user with the verdict classification (NoVerdict when the
\* classifier was bypassed) and the upload stored under publicId
NewReport(user, body, classification, publicId) ==
  [user |-> Cast("user", user),
   title |-> Cast("title", Trim(body.title)),
   details |-> Cast("details", Trim(body.details)),
   address |-> Cast("address", Trim(body.address)),
   photoTimestamp |-> Cast("photoTimestamp", NewDate(body.photoTimestamp)),
   publicId |-> CastId("publicId", publicId),
   image |-> CastId("image", publicId),
   reportType |-> Cast("reportType", FinalReportType(body.reportType)),
   \* status: default 'pending' (line 59)
   status |-> "pending",
   \* lines 61-100: the paths of the lifecycle, which the route does not
   \* give; resolvedLocation holds an array and starts with it empty
   assignedTo |-> Undefined, assignedAt |-> Undefined,
   resolvedBy |-> Undefined, resolvedAt |-> Undefined,
   resolvedImage |-> Undefined, resolvedLocation |-> EmptyLocation,
   resolvedAddress |-> Undefined,
   rejectionReason |-> Undefined, rejectedBy |-> Undefined,
   rejectedAt |-> Undefined,
   outOfScopeReason |-> Undefined, outOfScopeBy |-> Undefined,
   outOfScopeAt |-> Undefined,
   permanentlyResolvedBy |-> Undefined, permanentlyResolvedAt |-> Undefined,
   aiVerification |->
     CastObject("aiVerification",
                IF classification # NoVerdict
                  THEN Snapshot(classification)
                  ELSE NullObject)]

\* the validators save() runs on a document of the route: required on
\* title, details and address (lines 4-8, 17-21, 33-37), which the empty
\* string fails, the cast of photoTimestamp to a Date (lines 47-50), which
\* Invalid Date fails, and the enum of reportType (line 53); the route
\* always gives image, publicId, location and user
ValidDocument(doc) ==
  /\ doc.title # ""
  /\ doc.details # ""
  /\ doc.address # ""
  /\ doc.photoTimestamp # InvalidDate
  /\ doc.reportType \in ReportTypes

NoReport == [status |-> "<none>"]

---------------------------------------------------------------------------
(* State *)

VARIABLES
  reqs,        \* the requests: each handler's position, locals and response
  imageCache,  \* classificationService.js: const imageCache = new Map()
  timers,      \* the pending setTimeout(() => imageCache.delete(hash), 300000)
  reports,     \* the Report collection, by _id
  storage,     \* the public ids the object storage holds
  users        \* the User collection: points and reportCount

vars == <<reqs, imageCache, timers, reports, storage, users>>

\* the request slots: as many as the largest specification uses (the
\* specifications of the lifecycle have one submission before their
\* supervisor requests)
ReqIds ==
  LET calls == IF MaxCalls > MaxRequests THEN MaxCalls ELSE MaxRequests
      ops == IF MaxOperations > calls THEN MaxOperations ELSE calls
      supervised == IF MaxEdgeRequests > MaxTransitions
                      THEN MaxEdgeRequests ELSE MaxTransitions
  IN  1..(IF supervised + 1 > ops THEN supervised + 1 ELSE ops)

NoBody == [title |-> "<none>"]
NoData == [shape |-> "<none>"]
NoResponse == [status |-> 0, code |-> "", missing |-> <<>>, error |-> ""]

\* a request slot no request has used yet
Idle ==
  [kind |-> "none", pc |-> "idle", user |-> "", body |-> NoBody,
   classified |-> FALSE, fetches |-> 0, data |-> NoData,
   classification |-> NoVerdict, upload |-> "none", target |-> 0,
   doc |-> NoReport, thrown |-> "", live |-> {}, overdue |-> FALSE,
   seen |-> "",
   attempts |-> 0, delta |-> 0, res |-> NoResponse]

Response(status, code, missing, error) ==
  [status |-> status, code |-> code, missing |-> missing, error |-> error]

Init ==
  /\ reqs = [r \in ReqIds |-> Idle]
  /\ imageCache = <<>>
  /\ timers = <<>>
  /\ reports = [id \in ReqIds |-> NoReport]
  /\ storage = {}
  /\ users = [u \in Users |-> [points |-> 0, reportCount |-> 0]]

\* requests are numbered in the order they arrive
Fresh(r) ==
  /\ reqs[r].kind = "none"
  /\ \A q \in ReqIds : q < r => reqs[q].kind # "none"

\* the calls whose verdict for hash was cached less than the delay of the
\* removal timer ago: those whose removal timer is still pending
LiveWriters(hash) ==
  {timers[i].by : i \in {j \in 1..Len(timers) : timers[j].hash = hash}}

\* imageCache.has(hash)
Has(hash) == hash \in DOMAIN imageCache

\* imageCache.set(hash, result)
CacheSet(hash, result) ==
  [h \in DOMAIN imageCache \cup {hash} |->
     IF h = hash THEN result ELSE imageCache[h]]

\* imageCache.delete(hash)
CacheDelete(hash) ==
  [h \in DOMAIN imageCache \ {hash} |-> imageCache[h]]

---------------------------------------------------------------------------
(* router.post('/'): the submission *)

\* lines 83-127 once classifyImage has returned classification (NoVerdict
\* when forceSubmit skipped it): the request rejected by the gate, or with
\* the upload started and raced against the 15 s timer
Admit(req, classification) ==
  LET gate == IF classification = NoVerdict THEN "" ELSE AdmissionGate(classification)
  IN  IF gate # ""
        THEN [req EXCEPT !.pc = "done", !.classification = classification,
                         !.res = Response(400, gate, <<>>, "")]
        ELSE [req EXCEPT !.pc = "uploading", !.classification = classification,
                         !.upload = "inflight"]

\* lines 10-86: the handler up to its first await
PostReport(r, user, body) ==
  LET v == Validate(body)
      hash == Fingerprint(body.image)
      req == [Idle EXCEPT !.kind = "submit", !.user = user, !.body = body]
  IN  /\ Fresh(r)
      /\ reqs' = [reqs EXCEPT ![r] =
           IF v.status # 0
             THEN [req EXCEPT !.pc = "done",
                              !.res = Response(v.status, v.code, v.missing, v.error)]
           ELSE IF body.forceSubmit
             THEN Admit(req, NoVerdict)
           ELSE IF Has(hash)
             \* classificationService.js lines 13-15
             THEN Admit([req EXCEPT !.classified = TRUE, !.live = LiveWriters(hash)],
                        imageCache[hash])
           ELSE [req EXCEPT !.pc = "fetching", !.classified = TRUE, !.fetches = 1,
                            !.live = LiveWriters(hash)]]
      /\ UNCHANGED <<imageCache, timers, reports, storage, users>>

---------------------------------------------------------------------------
(* router.post('/test-classify') *)

\* reportRoutes.js lines 198-210: the handler up to its first await
TestClassify(r, user, image) ==
  LET hash == Fingerprint(image)
      req == [Idle EXCEPT !.kind = "test", !.user = user,
                          !.body = [title |-> "<test>", image |-> image]]
  IN  /\ Fresh(r)
      /\ reqs' = [reqs EXCEPT ![r] =
           IF ImageFalsy(image)
             THEN [req EXCEPT !.pc = "done",
                              !.res = Response(400, "MISSING_IMAGE", <<>>, "")]
           ELSE IF Has(hash)
             THEN [req EXCEPT !.pc = "done", !.classified = TRUE,
                              !.live = LiveWriters(hash),
                              !.classification = imageCache[hash],
                              !.res = Response(200, "", <<>>, "")]
           ELSE [req EXCEPT !.pc = "fetching", !.classified = TRUE, !.fetches = 1,
                            !.live = LiveWriters(hash)]]
      /\ UNCHANGED <<imageCache, timers, reports, storage, users>>

---------------------------------------------------------------------------
(* classifyImage after the cache miss, and what its caller does next *)

\* a catch that does not return: the submission goes on to the upload as
\* if the classifier had been bypassed
ClassificationFailedGoesOn(req, message) ==
  IF req.kind = "submit"
    THEN [req EXCEPT !.pc = "uploading", !.thrown = message, !.upload = "inflight"]
    ELSE [req EXCEPT !.pc = "done", !.thrown = message,
                     !.res = Response(500, "CLASSIFICATION_FAILED", <<>>, message)]

\* the caller's catch: reportRoutes.js lines 103-109 for a submission,
\* lines 214-221 for a test
ClassificationFailed(req, message) ==
  IF req.kind = "submit"
    THEN [req EXCEPT !.pc = "done", !.thrown = message,
                     !.res = Response(503, "SERVICE_UNAVAILABLE", <<>>, message)]
    ELSE [req EXCEPT !.pc = "done", !.thrown = message,
                     !.res = Response(500, "CLASSIFICATION_FAILED", <<>>, message)]

\* the caller once classifyImage has returned result
ClassificationReturned(req, result) ==
  IF req.kind = "submit"
    THEN Admit(req, result)
    ELSE [req EXCEPT !.pc = "done", !.classification = result,
                     !.res = Response(200, "", <<>>, "")]

\* classificationService.js lines 42-53: fetch resolves with the response
\* head, the abort timer is cleared, and the body is read next
FetchResolves(r, ok) ==
  /\ reqs[r].pc = "fetching"
  /\ reqs' = [reqs EXCEPT ![r].pc = IF ok THEN "readingJson" ELSE "readingText"]
  /\ UNCHANGED <<imageCache, timers, reports, storage, users>>

\* lines 40-50 and 100-108: fetch rejects, by the abort of the 30 s timer
\* or by a connection error
FetchRejects(r, failure) ==
  /\ reqs[r].pc = "fetching"
  /\ failure \in {"abort", "refused", "notfound"}
  /\ reqs' = [reqs EXCEPT ![r] = ClassificationFailed(@, ClassifyError(failure))]
  /\ UNCHANGED <<imageCache, timers, reports, storage, users>>

\* lines 40 and 51: 30 s have passed since line 40 set the abort timer, in a
\* call whose fetch has resolved.  Line 51 cleared the timer then, so nothing
\* runs: the call goes on waiting for the body.  (While the call is still
\* at line 42 the timer fires instead, and the fetch rejects with the
\* AbortError: FetchRejects.)
DeadlinePasses(r) ==
  /\ reqs[r].pc \in {"readingJson", "readingText"}
  /\ ~reqs[r].overdue
  /\ reqs' = [reqs EXCEPT ![r].overdue = TRUE]
  /\ UNCHANGED <<imageCache, timers, reports, storage, users>>

\* lines 53-56 and 100-108: the body of a non-2xx response has been read
ErrorBodyRead(r) ==
  /\ reqs[r].pc = "readingText"
  /\ reqs' = [reqs EXCEPT ![r] = ClassificationFailed(@, ClassifyError("status"))]
  /\ UNCHANGED <<imageCache, timers, reports, storage, users>>

\* lines 58 and 100-108: the body of a 2xx response is not JSON
JsonRejects(r) ==
  /\ reqs[r].pc = "readingJson"
  /\ reqs' = [reqs EXCEPT ![r] = ClassificationFailed(@, ClassifyError("json"))]
  /\ UNCHANGED <<imageCache, timers, reports, storage, users>>

\* lines 58-98: the body of a 2xx response parses to data; the verdict is
\* cached, its removal scheduled, and the caller goes on
JsonResolves(r, data) ==
  LET result == Classify(data)
      hash == Fingerprint(reqs[r].body.image)
  IN  /\ reqs[r].pc = "readingJson"
      /\ imageCache' = CacheSet(hash, result)
      /\ timers' = Append(timers, [hash |-> hash, by |-> r])
      /\ reqs' = [reqs EXCEPT ![r] = ClassificationReturned([@ EXCEPT !.data = data], result)]
      /\ UNCHANGED <<reports, storage, users>>

\* line 96: a removal timer fires.  All timers have the same delay, so they
\* fire in the order they were set.
TimerFires ==
  /\ timers # <<>>
  /\ imageCache' = CacheDelete(Head(timers).hash)
  /\ timers' = Tail(timers)
  /\ UNCHANGED <<reqs, reports, storage, users>>

---------------------------------------------------------------------------
(* router.post('/'): upload, save, points *)

\* lines 114-127 and 142-162: the upload resolves before the 15 s timer;
\* the object is stored, the document is built and its save awaited
UploadResolves(r) ==
  /\ reqs[r].pc = "uploading"
  /\ reqs[r].upload = "inflight"
  /\ storage' = storage \cup {r}
  /\ reqs' = [reqs EXCEPT ![r].pc = "saving", ![r].upload = "done"]
  /\ UNCHANGED <<imageCache, timers, reports, users>>

\* lines 127-140: the upload rejects before the 15 s timer
UploadRejects(r, message) ==
  LET f == UploadFailure(message)
  IN  /\ reqs[r].pc = "uploading"
      /\ reqs[r].upload = "inflight"
      /\ reqs' = [reqs EXCEPT ![r].pc = "done", ![r].upload = "failed",
                              ![r].res = Response(f.status, f.code, <<>>, f.error)]
      /\ UNCHANGED <<imageCache, timers, reports, storage, users>>

\* lines 124-134: the 15 s timer fires before the upload settles; the
\* upload goes on
DeadlineFires(r) ==
  LET f == UploadFailure("CLOUDINARY_TIMEOUT")
  IN  /\ reqs[r].pc = "uploading"
      /\ reqs[r].upload = "inflight"
      /\ reqs' = [reqs EXCEPT ![r].pc = "done",
                              ![r].res = Response(f.status, f.code, <<>>, f.error)]
      /\ UNCHANGED <<imageCache, timers, reports, storage, users>>

\* an upload whose late result is still used: the handler goes on to save
LateUploadUsed(r, ok) ==
  /\ reqs[r].pc = "done"
  /\ reqs[r].upload = "inflight"
  /\ storage' = IF ok THEN storage \cup {r} ELSE storage
  /\ reqs' = [reqs EXCEPT ![r].upload = IF ok THEN "done" ELSE "failed",
                          ![r].pc = IF ok THEN "saving" ELSE "done"]
  /\ UNCHANGED <<imageCache, timers, reports, users>>

\* line 127: the upload settles after the race is decided; no handler of
\* the settled promise is left but the race's, which ignores it
LateUploadSettles(r, ok) ==
  /\ reqs[r].pc = "done"
  /\ reqs[r].upload = "inflight"
  /\ storage' = IF ok THEN storage \cup {r} ELSE storage
  /\ reqs' = [reqs EXCEPT ![r].upload = IF ok THEN "done" ELSE "failed"]
  /\ UNCHANGED <<imageCache, timers, reports, users>>

\* lines 143-162 and 180-193: newReport.save() settles.  It rejects with a
\* ValidationError for a document the schema refuses, and with another
\* error when the store fails (dbOk false).
SaveSettles(r, dbOk) ==
  LET req == reqs[r]
      doc == NewReport(req.user, req.body, req.classification, r)
  IN  /\ req.pc = "saving"
      /\ IF ~ValidDocument(doc)
           THEN /\ reqs' = [reqs EXCEPT ![r].pc = "done",
                     ![r].res = Response(400, "VALIDATION_ERROR", <<>>, "ValidationError")]
                /\ UNCHANGED reports
         ELSE IF ~dbOk
           THEN /\ reqs' = [reqs EXCEPT ![r].pc = "done",
                     ![r].res = Response(500, "INTERNAL_SERVER_ERROR", <<>>, "store")]
                /\ UNCHANGED reports
         ELSE /\ reports' = [reports EXCEPT ![r] = doc]
              /\ reqs' = [reqs EXCEPT ![r].pc = "awarding", ![r].target = r]
      /\ UNCHANGED <<imageCache, timers, storage, users>>

\* an increment without the try/catch: its rejection reaches the outer catch
PointsSettleUncaught(r, dbOk) ==
  LET req == reqs[r]
      pointsToAdd == PointsToAdd(FinalReportType(req.body.reportType))
  IN  /\ req.pc = "awarding"
      /\ users' = IF dbOk
                    THEN [users EXCEPT ![req.user].points = @ + pointsToAdd,
                                       ![req.user].reportCount = @ + 1]
                    ELSE users
      /\ reqs' = [reqs EXCEPT ![r].pc = "done", ![r].attempts = @ + 1,
                              ![r].delta = IF dbOk THEN pointsToAdd ELSE 0,
                              ![r].res = IF dbOk
                                THEN Response(201, "", <<>>, "")
                                ELSE Response(500, "INTERNAL_SERVER_ERROR", <<>>, "store")]
      /\ UNCHANGED <<imageCache, timers, reports, storage>>

\* lines 164-179: User.findByIdAndUpdate settles; a rejection is swallowed
\* and the response is 201 either way
PointsSettle(r, dbOk) ==
  LET req == reqs[r]
      pointsToAdd == PointsToAdd(FinalReportType(req.body.reportType))
  IN  /\ req.pc = "awarding"
      /\ users' = IF dbOk
                    THEN [users EXCEPT ![req.user].points = @ + pointsToAdd,
                                       ![req.user].reportCount = @ + 1]
                    ELSE users
      /\ reqs' = [reqs EXCEPT ![r].pc = "done", ![r].attempts = @ + 1,
                              ![r].delta = IF dbOk THEN pointsToAdd ELSE 0,
                              ![r].res = Response(201, "", <<>>, "")]
      /\ UNCHANGED <<imageCache, timers, reports, storage>>

---------------------------------------------------------------------------
(* router.delete('/:id') *)

\* lines 262-264: the handler up to its first await, Report.findById
DeleteReport(r, user, id) ==
  /\ Fresh(r)
  /\ reqs' = [reqs EXCEPT ![r] =
       [Idle EXCEPT !.kind = "delete", !.user = user, !.target = id,
                    !.pc = "finding"]]
  /\ UNCHANGED <<imageCache, timers, reports, storage, users>>

\* lines 264-275 and 301-304: findById settles.  When it resolves the
\* handler holds the document it read; when it rejects (dbOk false: the
\* store fails) the catch answers 500 and nothing has changed.
DeleteFound(r, dbOk) ==
  LET req == reqs[r]
      report == reports[req.target]
  IN  /\ req.pc = "finding"
      /\ reqs' = [reqs EXCEPT ![r] =
           IF ~dbOk
             THEN [req EXCEPT !.pc = "done",
                              !.res = Response(500, "", <<>>, "Internal Server Error")]
           ELSE IF report = NoReport
             THEN [req EXCEPT !.pc = "done",
                              !.res = Response(404, "", <<>>, "Report not found")]
           ELSE IF report.user # req.user
             THEN [req EXCEPT !.pc = "done",
                              !.res = Response(401, "", <<>>, "Unauthorized")]
           ELSE IF report.publicId # 0
             THEN [req EXCEPT !.pc = "destroying", !.doc = report]
           ELSE [req EXCEPT !.pc = "deducting", !.doc = report]]
      /\ UNCHANGED <<imageCache, timers, reports, storage, users>>

\* lines 273-279: cloudinary.uploader.destroy settles; a rejection is logged
DestroySettles(r, ok) ==
  /\ reqs[r].pc = "destroying"
  /\ storage' = IF ok THEN storage \ {reqs[r].doc.publicId} ELSE storage
  /\ reqs' = [reqs EXCEPT ![r].pc = "deducting"]
  /\ UNCHANGED <<imageCache, timers, reports, users>>

\* lines 281-296 and 301-304: User.findByIdAndUpdate settles
DeductSettles(r, dbOk) ==
  LET req == reqs[r]
      pointsToDeduct == PointsToDeduct(req.doc.reportType)
  IN  /\ req.pc = "deducting"
      /\ IF dbOk
           THEN /\ users' = [users EXCEPT ![req.user].points = @ - pointsToDeduct,
                                          ![req.user].reportCount = @ - 1]
                /\ reqs' = [reqs EXCEPT ![r].pc = "removing", ![r].attempts = @ + 1,
                                        ![r].delta = 0 - pointsToDeduct]
           ELSE /\ users' = users
                /\ reqs' = [reqs EXCEPT ![r].pc = "done",
                      ![r].res = Response(500, "", <<>>, "Internal Server Error")]
      /\ UNCHANGED <<imageCache, timers, reports, storage>>

\* lines 298-304: report.deleteOne() settles
RemoveSettles(r, dbOk) ==
  LET req == reqs[r]
  IN  /\ req.pc = "removing"
      /\ IF dbOk
           THEN /\ reports' = [reports EXCEPT ![req.target] = NoReport]
                /\ reqs' = [reqs EXCEPT ![r].pc = "done",
                      ![r].res = Response(200, "", <<>>, "Report deleted successfully")]
           ELSE /\ reports' = reports
                /\ reqs' = [reqs EXCEPT ![r].pc = "done",
                      ![r].res = Response(500, "", <<>>, "Internal Server Error")]
      /\ UNCHANGED <<imageCache, timers, storage, users>>

---------------------------------------------------------------------------
(* routes/supervisorRoutes.js, and the lifecycle of section 4.4 that the    *)
(* handlers of controllers/supervisorController.js implement                *)

Supervisors == {"s1", "s2"}

\* req.user.role
Role(user) == IF user \in Supervisors THEN "supervisor" ELSE "user"

\* a middleware that lets every authenticated user through
isSupervisorAny(role) == role \in {"supervisor", "user"}

\* supervisorRoutes.js lines 10-15: TRUE when the middleware calls next()
isSupervisor(role) == role = "supervisor"

LifecycleOps == {"assign", "resolve", "reject", "out-of-scope", "permanent-resolve"}

\* the operation a generic status update to status asks for.  No operation
\* leads to pending, and resolved has its own route.
OpOf(status) ==
  CASE status = "in-progress" -> "assign"
    [] status = "rejected" -> "reject"
    [] status = "out-of-scope" -> "out-of-scope"
    [] status = "permanent-resolved" -> "permanent-resolve"
    [] OTHER -> "<none>"

\* the status an operation leads to
OpStatus(op) ==
  CASE op = "assign" -> "in-progress"
    [] op = "resolve" -> "resolved"
    [] op = "reject" -> "rejected"
    [] op = "out-of-scope" -> "out-of-scope"
    [] op = "permanent-resolve" -> "permanent-resolved"

\* a transition table without guards: every operation from every status
LifecycleTargetAny(op, status) ==
  IF status \in Statuses THEN OpStatus(op) ELSE "<refused>"

\* the status an operation moves a report of the given status to, or
\* "<refused>"
LifecycleTarget(op, status) ==
  CASE op = "assign" /\ status \in {"pending", "in-progress"} -> "in-progress"
    [] op = "resolve" /\ status = "in-progress" -> "resolved"
    [] op = "reject" /\ status = "in-progress" -> "rejected"
    [] op = "out-of-scope" /\ status \in {"pending", "in-progress", "resolved"}
         -> "out-of-scope"
    [] op = "permanent-resolve" /\ status = "resolved" -> "permanent-resolved"
    [] OTHER -> "<refused>"

\* the operation is already satisfied: the report is in progress and
\* assigned to the supervisor who asks for it
AlreadySatisfied(op, doc, actor) ==
  op = "assign" /\ doc.status = "in-progress" /\ doc.assignedTo = actor

\* a check that asks for no evidence
MissingEvidenceNone(op, body) == SubSeq(<<"reason">>, 1, 0)

\* the evidence fields an operation requires and the body does not carry
MissingEvidence(op, body) ==
  IF op = "resolve"
    THEN (IF Falsy(body.image) THEN <<"image">> ELSE <<>>)
         \o (IF Falsy(body.location) THEN <<"location">> ELSE <<>>)
         \o (IF Falsy(body.address) THEN <<"address">> ELSE <<>>)
  ELSE IF op \in {"reject", "out-of-scope"}
    THEN (IF Falsy(body.reason) THEN <<"reason">> ELSE <<>>)
  ELSE <<>>

\* the time of a transition
Now == "date"

\* a transition that records who acted but not when
ApplyTransitionUndated(doc, op, actor, body) ==
  CASE op = "assign" ->
         [doc EXCEPT !.assignedTo = actor]
    [] op = "resolve" ->
         [doc EXCEPT !.resolvedBy = actor,
                     !.resolvedImage = body.image,
                     !.resolvedLocation = body.location,
                     !.resolvedAddress = body.address]
    [] op = "reject" ->
         [doc EXCEPT !.rejectionReason = body.reason,
                     !.rejectedBy = actor]
    [] op = "out-of-scope" ->
         [doc EXCEPT !.outOfScopeReason = body.reason,
                     !.outOfScopeBy = actor]
    [] op = "permanent-resolve" ->
         [doc EXCEPT !.permanentlyResolvedBy = actor]

\* the metadata the operation of supervisor actor records on the document
\* (distanceToReported, which nothing reads back, is left out)
ApplyTransition(doc, op, actor, body) ==
  CASE op = "assign" ->
         [doc EXCEPT !.assignedTo = actor,
                     !.assignedAt = Now]
    [] op = "resolve" ->
         [doc EXCEPT !.resolvedBy = actor,
                     !.resolvedAt = Now, !.resolvedImage = body.image,
                     !.resolvedLocation = body.location,
                     !.resolvedAddress = body.address]
    [] op = "reject" ->
         [doc EXCEPT !.rejectionReason = body.reason,
                     !.rejectedBy = actor, !.rejectedAt = Now]
    [] op = "out-of-scope" ->
         [doc EXCEPT !.outOfScopeReason = body.reason,
                     !.outOfScopeBy = actor, !.outOfScopeAt = Now]
    [] op = "permanent-resolve" ->
         [doc EXCEPT !.permanentlyResolvedBy = actor,
                     !.permanentlyResolvedAt = Now]

\* the body of a supervisor's request: the target status of a generic
\* update with its reason, or the evidence of a resolution
NoEvidence ==
  [status |-> Undefined, reason |-> Undefined, image |-> Undefined,
   location |-> Undefined, address |-> Undefined]

FullEvidence ==
  [NoEvidence EXCEPT !.reason = "why", !.image = "img", !.location = "loc",
                     !.address = "addr"]

\* the operation a request asks for
OpOfRequest(req) ==
  IF req.kind = "resolve" THEN "resolve" ELSE OpOf(req.body.status)

\* a handler entered whatever the middleware answered
SuperviseUnguarded(req) ==
  LET op == OpOfRequest(req)
      missing == MissingEvidence(op, req.body)
  IN  IF op = "<none>"
        THEN [req EXCEPT !.pc = "done",
                         !.res = Response(400, "INVALID_STATUS", <<>>, "")]
      ELSE IF Len(missing) > 0
        THEN [req EXCEPT !.pc = "done",
                         !.res = Response(400, "MISSING_EVIDENCE", missing, "")]
      ELSE [req EXCEPT !.pc = "transition"]

\* supervisorRoutes.js lines 10-15 and 116-121: the middleware answers 403
\* to a user who is no supervisor; otherwise the handler runs up to its
\* conditional update, refusing a request that names no operation or lacks
\* the evidence of its operation
Supervise(req) ==
  IF ~isSupervisor(Role(req.user))
    THEN [req EXCEPT !.pc = "done",
                     !.res = Response(403, "", <<>>, "Access denied")]
    ELSE SuperviseUnguarded(req)

\* line 116: PUT /reports/:id/status arrives
PutStatus(r, actor, id, body) ==
  /\ Fresh(r)
  /\ reqs' = [reqs EXCEPT ![r] =
       Supervise([Idle EXCEPT !.kind = "status", !.user = actor, !.target = id,
                              !.body = body, !.seen = reports[id].status])]
  /\ UNCHANGED <<imageCache, timers, reports, storage, users>>

\* line 121: PUT /reports/:id/resolve arrives
PutResolve(r, actor, id, body) ==
  /\ Fresh(r)
  /\ reqs' = [reqs EXCEPT ![r] =
       Supervise([Idle EXCEPT !.kind = "resolve", !.user = actor, !.target = id,
                              !.body = body, !.seen = reports[id].status])]
  /\ UNCHANGED <<imageCache, timers, reports, storage, users>>

\* an update that does not match on the status: it is applied to whatever
\* the document has become
TransitionSettlesUnmatched(r) ==
  LET req == reqs[r]
      op == OpOfRequest(req)
      doc == reports[req.target]
  IN  /\ req.pc = "transition"
      /\ IF doc = NoReport
           THEN /\ reqs' = [reqs EXCEPT ![r].pc = "done",
                      ![r].res = Response(404, "", <<>>, "Report not found")]
                /\ UNCHANGED reports
           ELSE /\ reports' = [reports EXCEPT ![req.target] =
                      [ApplyTransition(doc, op, req.user, req.body)
                         EXCEPT !.status = OpStatus(op)]]
                /\ reqs' = [reqs EXCEPT ![r].pc = "done",
                      ![r].res = Response(200, "", <<>>, "")]
      /\ UNCHANGED <<imageCache, timers, storage, users>>

\* The conditional update of the handler settles: one atomic step of the
\* store that matches on the status the operation starts from.  A document
\* whose status does not permit the operation, or already satisfies it, is
\* left as it is and the request fails with the stale state.
TransitionSettles(r) ==
  LET req == reqs[r]
      op == OpOfRequest(req)
      doc == reports[req.target]
  IN  /\ req.pc = "transition"
      /\ IF doc = NoReport
           THEN /\ reqs' = [reqs EXCEPT ![r].pc = "done",
                      ![r].res = Response(404, "", <<>>, "Report not found")]
                /\ UNCHANGED reports
         ELSE IF \/ LifecycleTarget(op, doc.status) = "<refused>"
                 \/ AlreadySatisfied(op, doc, req.user)
           THEN /\ reqs' = [reqs EXCEPT ![r].pc = "done",
                      ![r].res = Response(409, "STALE_STATE", <<>>, doc.status)]
                /\ UNCHANGED reports
         ELSE /\ reports' = [reports EXCEPT ![req.target] =
                    [ApplyTransition(doc, op, req.user, req.body)
                       EXCEPT !.status = LifecycleTarget(op, doc.status)]]
              /\ reqs' = [reqs EXCEPT ![r].pc = "done",
                    ![r].res = Response(200, "", <<>>, "")]
      /\ UNCHANGED <<imageCache, timers, storage, users>>

\* the effect on the collection of a request of supervisor "s1" that carries
\* its evidence: the conditional update alone
UpdateReportStatus(id, op) ==
  /\ reports[id] # NoReport
  /\ LifecycleTarget(op, reports[id].status) # "<refused>"
  /\ ~AlreadySatisfied(op, reports[id], "s1")
  /\ reports' = [reports EXCEPT ![id] =
       [ApplyTransition(@, op, "s1", FullEvidence)
          EXCEPT !.status = LifecycleTarget(op, reports[id].status)]]
  /\ UNCHANGED <<reqs, imageCache, timers, storage, users>>

---------------------------------------------------------------------------
(* Inputs *)

Texts == {Undefined, "", "text", Blank}

Images ==
  {ImageUndefined} \cup {ImageString(p, q) : p \in {"", "data:image/png;base64,"}, q \in Payloads}

Latitudes == {CoordUndefined, CoordText, CoordNumber(0), CoordNumber(90), CoordNumber(91)}
Longitudes == {CoordUndefined, CoordText, CoordNumber(0), CoordNumber(0 - 180), CoordNumber(181)}

RequestTypes == {Undefined, "hazardous", "large", "other"}

\* every request body of the validation specification
Bodies ==
  [title : Texts, image : Images, details : {Undefined, "text", Blank},
   address : {Undefined, "text", Blank}, latitude : Latitudes,
   longitude : Longitudes, photoTimestamp : PhotoTimestamps,
   reportType : {Undefined, "hazardous"}, forceSubmit : BOOLEAN]

ImageA == ImageString("", "imgA")

\* the bodies of the pipeline specification: well-formed ones of no
\* category, bypassed or not, one without a title and one without an image
PipelineBodies ==
  [title : {"text"}, image : {ImageA}, details : {"text"}, address : {"text"},
   latitude : {CoordNumber(0)}, longitude : {CoordNumber(0)},
   photoTimestamp : {Undefined}, reportType : {Undefined}, forceSubmit : BOOLEAN]
  \cup
  [title : {Undefined}, image : {ImageA, ImageUndefined}, details : {"text"},
   address : {"text"}, latitude : {CoordNumber(0)}, longitude : {CoordNumber(0)},
   photoTimestamp : {Undefined}, reportType : {Undefined},
   forceSubmit : {FALSE}]

\* the upstream responses of the pipeline specification: one waste
\* detection, of a confidence on either side of the floor of isWaste and of
\* the admission threshold, or above the high threshold
PipelineResponses ==
  {[shape |-> "images", list |-> <<[class |-> WASTE_CLASS, confidence |-> c]>>] :
     c \in {249, 699, 700, 850}}

\* the submission of the lifecycle specification: well-formed, bypassing
\* the classifier
LifecycleBody ==
  [title |-> "text", image |-> ImageA, details |-> "text", address |-> "text",
   latitude |-> CoordNumber(0), longitude |-> CoordNumber(0),
   photoTimestamp |-> Undefined, reportType |-> Undefined,
   forceSubmit |-> TRUE]

\* the generic status updates of the lifecycle specification, as pairs of
\* the requester and the body: an assignment by either supervisor; by "s1"
\* a rejection and an out-of-scope mark with and without a reason, a
\* permanent resolution and an update back to pending; a rejection by a
\* user who is no supervisor
StatusRequests ==
  {<<a, [NoEvidence EXCEPT !.status = "in-progress"]>> : a \in Supervisors}
  \cup {<<"s1", [NoEvidence EXCEPT !.status = "rejected", !.reason = t]>> :
          t \in {Undefined, "why"}}
  \cup {<<"s1", [NoEvidence EXCEPT !.status = "out-of-scope", !.reason = t]>> :
          t \in {"", "why"}}
  \cup {<<"s1", [NoEvidence EXCEPT !.status = st]>> :
          st \in {"permanent-resolved", "pending"}}
  \cup {<<"u1", [NoEvidence EXCEPT !.status = "rejected", !.reason = "why"]>>}

\* the generic status updates of the specification of the edges, all by
\* "s1" and with the reason where one is asked: to every status but
\* resolved, which has its own route
EdgeRequests ==
  {<<"s1", [NoEvidence EXCEPT !.status = st, !.reason = "why"]>> :
     st \in {"pending", "in-progress", "rejected", "out-of-scope",
             "permanent-resolved"}}

\* the resolutions: with the evidence by either supervisor and by a user
\* who is no supervisor, and without the image by "s1"
ResolveRequests ==
  {<<a, FullEvidence>> : a \in Supervisors \cup {"u1"}}
  \cup {<<"s1", [FullEvidence EXCEPT !.image = Undefined]>>}

\* the bodies of the deletion specification: well-formed, bypassing the
\* classifier, of no category (which the route makes standard), of two the
\* schema knows and of one it does not know
DeletionBodies ==
  [title : {"text"}, image : {ImageA}, details : {"text"}, address : {"text"},
   latitude : {CoordNumber(0)}, longitude : {CoordNumber(0)},
   photoTimestamp : {Undefined}, reportType : RequestTypes,
   forceSubmit : {TRUE}]

\* the bodies of the accounting specification: well-formed, bypassing the
\* classifier, of no category and of the two categories of more points
AccountBodies ==
  {b \in DeletionBodies : b.reportType \in {Undefined, "hazardous", "large"}}

---------------------------------------------------------------------------
(* Specifications *)

\* the steps of classifyImage after a cache miss
ClassifySteps ==
  \/ \E r \in ReqIds, ok \in BOOLEAN : FetchResolves(r, ok)
  \/ \E r \in ReqIds, f \in Failures : FetchRejects(r, f)
  \/ \E r \in ReqIds : ErrorBodyRead(r)
  \/ \E r \in ReqIds : JsonRejects(r)
  \/ \E r \in ReqIds, data \in PipelineResponses : JsonResolves(r, data)
  \/ TimerFires

\* the steps of a submission after its classification
SubmitSteps ==
  \/ \E r \in ReqIds : UploadResolves(r)
  \/ \E r \in ReqIds, m \in UploadErrors : UploadRejects(r, m)
  \/ \E r \in ReqIds : DeadlineFires(r)
  \/ \E r \in ReqIds, ok \in BOOLEAN : LateUploadSettles(r, ok)
  \/ \E r \in ReqIds, ok \in BOOLEAN : SaveSettles(r, ok)
  \/ \E r \in ReqIds, ok \in BOOLEAN : PointsSettle(r, ok)

\* the steps of a deletion
DeleteSteps ==
  \/ \E r \in ReqIds, ok \in BOOLEAN : DeleteFound(r, ok)
  \/ \E r \in ReqIds, ok \in BOOLEAN : DestroySettles(r, ok)
  \/ \E r \in ReqIds, ok \in BOOLEAN : DeductSettles(r, ok)
  \/ \E r \in ReqIds, ok \in BOOLEAN : RemoveSettles(r, ok)

\* the admission pipeline: submissions of one user
Next ==
  \/ \E r \in 1..MaxRequests :
       Fresh(r) /\ \E body \in PipelineBodies : PostReport(r, "u1", body)
  \/ ClassifySteps
  \/ SubmitSteps

Spec == Init /\ [][Next]_vars

\* bypassed submissions of one user, deletions by any user and the
\* supervisor's assignment and resolution, which take a report out of
\* pending
NextDelete ==
  \/ \E r \in 1..MaxRequests :
       Fresh(r) /\ \E body \in DeletionBodies : PostReport(r, "u1", body)
  \/ SubmitSteps
  \/ \E r \in 1..MaxRequests, u \in Users, id \in 1..MaxRequests :
       DeleteReport(r, u, id)
  \/ DeleteSteps
  \/ \E id \in ReqIds, op \in {"assign", "resolve"} : UpdateReportStatus(id, op)

SpecDelete == Init /\ [][NextDelete]_vars

\* one bypassed submission that succeeds and, once it is answered, the
\* supervisors' requests on its report, overlapping or not
NextLifecycle ==
  \/ Fresh(1) /\ PostReport(1, "u1", LifecycleBody)
  \/ UploadResolves(1)
  \/ SaveSettles(1, TRUE)
  \/ PointsSettle(1, TRUE)
  \/ \E r \in 2..(MaxTransitions + 1) :
       /\ Fresh(r)
       /\ reqs[1].pc = "done" /\ reports[1] # NoReport
       /\ \E q \in StatusRequests : PutStatus(r, q[1], 1, q[2])
  \/ \E r \in 2..(MaxTransitions + 1) :
       /\ Fresh(r)
       /\ reqs[1].pc = "done" /\ reports[1] # NoReport
       /\ \E q \in ResolveRequests : PutResolve(r, q[1], 1, q[2])
  \/ \E r \in ReqIds : TransitionSettles(r)

SpecLifecycle == Init /\ [][NextLifecycle]_vars

\* one bypassed submission that succeeds and, once it is answered, the
\* requests of one supervisor for every operation on its report, overlapping
\* or not, and enough of them to ask for an operation on a report that has
\* gone all the way to permanent-resolved
NextEdges ==
  \/ Fresh(1) /\ PostReport(1, "u1", LifecycleBody)
  \/ UploadResolves(1)
  \/ SaveSettles(1, TRUE)
  \/ PointsSettle(1, TRUE)
  \/ \E r \in 2..(MaxEdgeRequests + 1) :
       /\ Fresh(r)
       /\ reqs[1].pc = "done" /\ reports[1] # NoReport
       /\ \E q \in EdgeRequests : PutStatus(r, q[1], 1, q[2])
  \/ \E r \in 2..(MaxEdgeRequests + 1) :
       /\ Fresh(r)
       /\ reqs[1].pc = "done" /\ reports[1] # NoReport
       /\ PutResolve(r, "s1", 1, FullEvidence)
  \/ \E r \in ReqIds : TransitionSettles(r)

SpecEdges == Init /\ [][NextEdges]_vars

\* one submission of any body, up to the end of its synchronous checks
\* and, when it bypasses the classifier, through the validators of save()
NextValidate ==
  \/ Fresh(1) /\ \E body \in Bodies : PostReport(1, "u1", body)
  \/ UploadResolves(1)
  \/ SaveSettles(1, TRUE)

SpecValidate == Init /\ [][NextValidate]_vars

\* The response of the upstream service to an image in the specifications
\* of the cache and of the verdict, where the service answers the same image
\* with the same detections.
ImageB == ImageString("", "imgB")
ImageAPrefixed == ImageString("data:image/png;base64,", "imgA")

UpstreamAnswer(image) ==
  IF image.payload = "imgA"
    THEN [shape |-> "images", list |-> <<[class |-> WASTE_CLASS, confidence |-> 850]>>]
    ELSE [shape |-> "predictions", list |-> <<[class |-> 0, confidence |-> 1000]>>]

\* calls of classifyImage through the test route, overlapping or not,
\* against an upstream service that answers an image always the same way
NextCache ==
  \/ \E r \in 1..MaxCalls :
       Fresh(r) /\ \E image \in {ImageA, ImageAPrefixed, ImageB} : TestClassify(r, "u1", image)
  \/ \E r \in ReqIds, ok \in BOOLEAN : FetchResolves(r, ok)
  \/ \E r \in ReqIds, f \in Failures : FetchRejects(r, f)
  \/ \E r \in ReqIds : ErrorBodyRead(r)
  \/ \E r \in ReqIds : JsonRejects(r)
  \/ \E r \in ReqIds : JsonResolves(r, UpstreamAnswer(reqs[r].body.image))
  \/ TimerFires

SpecCache == Init /\ [][NextCache]_vars

\* calls of classifyImage through the test route, with the passing of each
\* call's 30 s
NextDeadline ==
  \/ \E r \in 1..MaxRequests :
       Fresh(r) /\ \E image \in {ImageA, ImageB} : TestClassify(r, "u1", image)
  \/ \E r \in ReqIds, ok \in BOOLEAN : FetchResolves(r, ok)
  \/ \E r \in ReqIds, f \in Failures : FetchRejects(r, f)
  \/ \E r \in ReqIds : DeadlinePasses(r)
  \/ \E r \in ReqIds : ErrorBodyRead(r)
  \/ \E r \in ReqIds : JsonRejects(r)
  \/ \E r \in ReqIds : JsonResolves(r, UpstreamAnswer(reqs[r].body.image))
  \/ TimerFires

SpecDeadline == Init /\ [][NextDeadline]_vars

\* one call of classifyImage through the test route, answered by any response
NextVerdict ==
  \/ Fresh(1) /\ TestClassify(1, "u1", ImageA)
  \/ FetchResolves(1, TRUE)
  \/ \E data \in Responses : JsonResolves(1, data)

SpecVerdict == Init /\ [][NextVerdict]_vars

\* the point accounting: bypassed submissions of one user in the categories
\* the schema knows and that user's deletions, overlapping or not, with
\* every update of the user and every removal of a document succeeding or
\* failing
NextAccount ==
  \/ \E r \in 1..MaxOperations :
       Fresh(r) /\ \E body \in AccountBodies : PostReport(r, "u1", body)
  \/ \E r \in 1..MaxOperations : UploadResolves(r)
  \/ \E r \in 1..MaxOperations, ok \in BOOLEAN : SaveSettles(r, ok)
  \/ \E r \in 1..MaxOperations, ok \in BOOLEAN : PointsSettle(r, ok)
  \/ \E r \in 1..MaxOperations, id \in 1..MaxOperations : DeleteReport(r, "u1", id)
  \/ \E r \in 1..MaxOperations, ok \in BOOLEAN : DeleteFound(r, ok)
  \/ \E r \in 1..MaxOperations : DestroySettles(r, TRUE)
  \/ \E r \in 1..MaxOperations, ok \in BOOLEAN : DeductSettles(r, ok)
  \/ \E r \in 1..MaxOperations, ok \in BOOLEAN : RemoveSettles(r, ok)

SpecAccount == Init /\ [][NextAccount]_vars

---------------------------------------------------------------------------
(* Claims about the admission pipeline (specification Spec) *)

\* the submissions that did not ask for the bypass and whose call of
\* classifyImage returned a verdict
Classified(r) ==
  /\ reqs[r].kind = "submit"
  /\ ~reqs[r].body.forceSubmit
  /\ reqs[r].classification # NoVerdict

\* a Report was persisted by submission r
Persisted(r) == reqs[r].kind = "submit" /\ reqs[r].target = r

\* C1: a non-bypassed submission whose classification succeeded ends with
\* NOT_WASTE when the verdict is not waste, with LOW_CONFIDENCE when it is
\* waste of confidence below 0.70, and otherwise (0.70 included) starts the
\* upload; a submission of the first two kinds starts no upload and
\* persists no Report.
C1_AdmissionGate ==
  \A r \in ReqIds :
    Classified(r) =>
      LET v == reqs[r].classification
          q == reqs[r]
      IN  /\ ~v.isWaste =>
               /\ q.pc = "done" /\ q.res.code = "NOT_WASTE"
               /\ q.upload = "none" /\ reports[r] = NoReport
          /\ (v.isWaste /\ v.confidence < 700) =>
               /\ q.pc = "done" /\ q.res.code = "LOW_CONFIDENCE"
               /\ q.upload = "none" /\ reports[r] = NoReport
          /\ (v.isWaste /\ v.confidence >= 700) =>
               /\ q.upload # "none"
               /\ q.res.code \notin {"NOT_WASTE", "LOW_CONFIDENCE"}

\* a verdict of exactly 0.70 has started the upload while another
\* submission, of 0.699, was rejected
C1_Witness ==
  \E r1, r2 \in ReqIds :
    /\ Classified(r1) /\ reqs[r1].classification.confidence = 700
    /\ reqs[r1].upload = "inflight"
    /\ Classified(r2) /\ reqs[r2].classification.confidence = 699
    /\ reqs[r2].res.code = "LOW_CONFIDENCE"

\* C3: a response sent while the upload is still in flight is
\* CLOUDINARY_TIMEOUT; a submission that ended with CLOUDINARY_TIMEOUT has
\* no Report and no point increment, whatever the upload does later, and
\* no Report refers to the object it stored; an upload that fails before
\* the deadline ends the submission with CLOUDINARY_ERROR and no Report.
C3_UploadRace ==
  \A r \in ReqIds :
    LET q == reqs[r]
    IN  /\ (q.kind = "submit" /\ q.pc = "done" /\ q.upload = "inflight") =>
             q.res.code = "CLOUDINARY_TIMEOUT" /\ q.res.status = 504
        /\ q.res.code = "CLOUDINARY_TIMEOUT" =>
             /\ q.pc = "done" /\ q.upload # "none"
             /\ reports[r] = NoReport /\ ~Persisted(r)
             /\ q.attempts = 0 /\ q.delta = 0
             /\ \A id \in ReqIds : reports[id] # NoReport => reports[id].publicId # r
        /\ q.res.code = "CLOUDINARY_ERROR" =>
             /\ q.pc = "done" /\ q.upload = "failed" /\ q.res.status = 500
             /\ q.res.error \in UploadErrors
             /\ reports[r] = NoReport /\ ~Persisted(r) /\ q.attempts = 0
        /\ (q.kind = "submit" /\ q.upload = "failed") =>
             q.res.code \in {"CLOUDINARY_ERROR", "CLOUDINARY_TIMEOUT"}

\* the deadline won the race and the upload completed afterwards
C3_Witness ==
  \E r \in ReqIds :
    /\ reqs[r].res.code = "CLOUDINARY_TIMEOUT"
    /\ reqs[r].upload = "done"
    /\ r \in storage

\* C4: a non-bypassed submission whose classification call failed ends with
\* SERVICE_UNAVAILABLE (503) carrying the error classifyImage threw, one of
\* SERVICE_TIMEOUT, SERVICE_DOWN and SERVICE_ERROR; it starts no upload,
\* persists no Report and makes no point increment.
C4_ServiceUnavailable ==
  \A r \in ReqIds :
    LET q == reqs[r]
    IN  /\ (q.kind = "submit" /\ q.thrown # "") =>
             /\ ~q.body.forceSubmit
             /\ q.pc = "done"
             /\ q.res.status = 503 /\ q.res.code = "SERVICE_UNAVAILABLE"
             /\ q.res.error = q.thrown
             /\ q.thrown \in {"SERVICE_TIMEOUT", "SERVICE_DOWN",
                              "SERVICE_ERROR: API_ERROR: 500 - upstream",
                              "SERVICE_ERROR: invalid json response body"}
             /\ q.upload = "none" /\ reports[r] = NoReport /\ q.attempts = 0
             /\ q.classification = NoVerdict
        /\ q.res.code = "SERVICE_UNAVAILABLE" => q.thrown # ""
        \* a call that neither failed nor returned is still pending
        /\ (q.kind = "submit" /\ q.fetches = 1 /\ q.thrown = ""
              /\ q.classification = NoVerdict) =>
             q.pc \in {"fetching", "readingJson", "readingText"}

\* one submission ended by the abort of the 30 s timer, another by a
\* non-2xx response
C4_Witness ==
  \E r1, r2 \in ReqIds :
    /\ reqs[r1].kind = "submit" /\ reqs[r1].thrown = "SERVICE_TIMEOUT"
    /\ reqs[r1].res.code = "SERVICE_UNAVAILABLE"
    /\ reqs[r2].kind = "submit"
    /\ reqs[r2].thrown = "SERVICE_ERROR: API_ERROR: 500 - upstream"

\* C5: a bypassed submission never invokes classifyImage and its Report
\* carries a null aiVerification; the Report of any other submission
\* carries the snapshot (isWaste, confidence, verification) of the verdict
\* that admitted it; a Report is created with status pending.
C5_Snapshot ==
  \A r \in ReqIds :
    LET q == reqs[r]
    IN  /\ (q.kind = "submit" /\ q.body # NoBody /\ q.body.forceSubmit) =>
             ~q.classified /\ q.fetches = 0
        /\ (Persisted(r) /\ reports[r] # NoReport) =>
             /\ reports[r].status = "pending"
             /\ reports[r].aiVerification =
                  IF q.body.forceSubmit THEN NullObject ELSE Snapshot(q.classification)

\* C8: a submission whose Report was persisted ends with 201 whether the
\* point increment succeeded or failed, its Report stays, and it makes at
\* most one increment attempt.
C8_PointsBestEffort ==
  \A r \in ReqIds :
    LET q == reqs[r]
    IN  /\ Persisted(r) =>
             /\ q.pc \in {"awarding", "done"}
             /\ reports[r] # NoReport
             /\ q.pc = "done" => q.res.status = 201 /\ q.attempts = 1
             /\ q.pc = "awarding" => q.attempts = 0 /\ q.res = NoResponse
        /\ q.kind = "submit" => q.attempts <= 1
        /\ (q.kind = "submit" /\ q.res.status = 201) => Persisted(r)

\* a submission ended with 201 although its point increment failed
C8_Witness ==
  \E r \in ReqIds :
    /\ Persisted(r) /\ reqs[r].pc = "done"
    /\ reqs[r].attempts = 1 /\ reqs[r].delta = 0
    /\ reqs[r].res.status = 201
    /\ users[reqs[r].user].points = 0

---------------------------------------------------------------------------
(* Claims about the synchronous checks (specification SpecValidate) *)

\* the required fields a body does not carry, under the names of the
\* missingFields list (the coordinates are listed as "location")
AbsentFields(body) ==
  (IF body.title = Undefined THEN {"title"} ELSE {})
  \cup (IF body.image.kind = "undefined" THEN {"image"} ELSE {})
  \cup (IF body.details = Undefined THEN {"details"} ELSE {})
  \cup (IF body.address = Undefined THEN {"address"} ELSE {})
  \cup (IF body.latitude.t = "undefined" \/ body.longitude.t = "undefined"
          THEN {"location"} ELSE {})

\* C2: a submission without one or more of the required fields, the image
\* included, ends with MISSING_FIELDS and a list that holds every absent
\* field, and is neither classified nor uploaded nor persisted.
C2_MissingFields ==
  \A r \in ReqIds :
    LET q == reqs[r]
    IN  (q.kind = "submit" /\ AbsentFields(q.body) # {}) =>
          /\ q.pc = "done"
          /\ q.res.code = "MISSING_FIELDS"
          /\ AbsentFields(q.body) \subseteq {q.res.missing[i] : i \in 1..Len(q.res.missing)}
          /\ ~q.classified /\ q.upload = "none" /\ reports[r] = NoReport

\* the failure code of the first check a body fails when the checks run in
\* the order missing fields, image size, image format, coordinates ("" when
\* it passes them all)
FirstFailureInOrder(body) ==
  IF \/ body.title \in {Undefined, ""}
     \/ body.image.kind = "undefined"
     \/ body.image.prefix \o body.image.payload = ""
     \/ body.details \in {Undefined, ""}
     \/ body.address \in {Undefined, ""}
     \/ body.latitude.t = "undefined" \/ body.longitude.t = "undefined"
    THEN "MISSING_FIELDS"
  ELSE IF DecodedLength(body.image.payload) > 5 * 1024 * 1024
    THEN "IMAGE_TOO_LARGE"
  ELSE IF body.image.payload \in {"", "bad", "hugebad"}
    THEN "INVALID_IMAGE_FORMAT"
  ELSE IF body.latitude.t # "number" \/ body.longitude.t # "number"
    THEN "INVALID_COORDINATES"
  ELSE IF \/ body.latitude.v < 0 - 90 \/ body.latitude.v > 90
          \/ body.longitude.v < 0 - 180 \/ body.longitude.v > 180
    THEN "INVALID_COORDINATES_RANGE"
  ELSE ""

\* C18: a submission ends with the failure code of the first check it
\* fails in the order missing fields, image size, image format,
\* coordinates, and goes on to classification and upload when it fails none
\* (stated for the bodies that carry an image string; what a body without
\* one ends with is C2).
C18_CheckOrder ==
  \A r \in ReqIds :
    LET q == reqs[r]
    IN  (q.kind = "submit" /\ q.body.image.kind = "string") =>
          IF FirstFailureInOrder(q.body) # ""
            THEN q.pc = "done" /\ q.res.code = FirstFailureInOrder(q.body)
            ELSE q.res.code \notin
                   {"MISSING_FIELDS", "IMAGE_TOO_LARGE", "INVALID_IMAGE_FORMAT",
                    "INVALID_COORDINATES", "INVALID_COORDINATES_RANGE",
                    "INTERNAL_SERVER_ERROR"}

---------------------------------------------------------------------------
(* Claims about the verdict (specification SpecVerdict) *)

\* C10: the tier of a verdict follows from its confidence alone: high and
\* isVerifiedWaste from 0.85, medium and not isVerifiedWaste in
\* [0.65, 0.85), unverified below 0.65 even for waste; isHighConfidence and
\* isVerifiedWaste hold exactly from 0.85.
C10_Tiers ==
  \A r \in ReqIds :
    LET v == reqs[r].classification
    IN  v # NoVerdict =>
          /\ v.confidence >= 850 =>
               v.verification = "high_confidence" /\ v.isVerifiedWaste
          /\ (v.confidence >= 650 /\ v.confidence < 850) =>
               v.verification = "medium_confidence" /\ ~v.isVerifiedWaste
          /\ v.confidence < 650 => v.verification = "unverified"
          /\ v.isHighConfidence <=> v.confidence >= 850
          /\ v.isVerifiedWaste <=> v.confidence >= 850

\* a verdict of waste just below 0.65 is unverified, computed from a
\* response that also holds a detection of the other class
C10_Witness ==
  \E r \in ReqIds :
    LET v == reqs[r].classification
    IN  /\ v # NoVerdict
        /\ v.isWaste /\ v.confidence = 649 /\ v.verification = "unverified"
        /\ reqs[r].data.shape = "predictions"
        /\ Len(reqs[r].data.list) = 2

\* the confidences of the waste-class detections a response carries under
\* one of the two shapes (none when the list is absent)
WasteConfidences(data) ==
  IF data.shape \in {"images", "predictions"}
    THEN {data.list[i].confidence :
            i \in {j \in 1..Len(data.list) : data.list[j].class = 1}}
    ELSE {}

\* C11: the confidence of a verdict is the greatest confidence among the
\* waste-class detections of the response, under either shape, and 0 when
\* there is none (absent or empty list, or detections of other classes
\* only); isWaste holds exactly when that confidence is at least 0.25.
C11_MaxOfWaste ==
  \A r \in ReqIds :
    LET v == reqs[r].classification
        W == WasteConfidences(reqs[r].data)
    IN  (v # NoVerdict /\ reqs[r].data # NoData) =>
          /\ W = {} => v.confidence = 0
          /\ W # {} => v.confidence \in W /\ \A c \in W : c <= v.confidence
          /\ v.isWaste <=> v.confidence >= 250

\* a response of the second shape whose detection of the other class has
\* the greater confidence: the verdict takes the waste detection's 0.249
\* and is not waste
C11_Witness ==
  \E r \in ReqIds :
    /\ reqs[r].data # NoData
    /\ reqs[r].data.shape = "predictions"
    /\ reqs[r].data.list =
         <<[class |-> 0, confidence |-> 1000], [class |-> 1, confidence |-> 249]>>
    /\ reqs[r].classification # NoVerdict
    /\ reqs[r].classification.confidence = 249
    /\ ~reqs[r].classification.isWaste

---------------------------------------------------------------------------
(* Claims about the lifecycle (specification SpecLifecycle; C14 under    *)
(* SpecEdges, which has the request a permanent-resolved report refuses)   *)

\* the resolutions of report id that reached the store and have settled
Settled(id) ==
  {r \in ReqIds : /\ reqs[r].kind = "resolve" /\ reqs[r].target = id
                  /\ reqs[r].pc = "done" /\ reqs[r].res.status \in {200, 409}}

\* those that succeeded
Winners(id) == {r \in Settled(id) : reqs[r].res.status = 200}

\* C13: of the resolutions of one report at most one succeeds, every other
\* one fails with the stale state, and the resolver of the document is the
\* supervisor whose resolution succeeded; when resolutions that arrived
\* while the report was in progress have settled and no other operation
\* (rejection, out-of-scope mark, permanent resolution) changed its
\* status, exactly one resolution succeeded and the report is resolved.
C13_OneResolver ==
  \A id \in ReqIds :
    reports[id] # NoReport =>
      LET doc == reports[id] IN
      /\ Cardinality(Winners(id)) <= 1
      /\ \A r \in Settled(id) \ Winners(id) : reqs[r].res.code = "STALE_STATE"
      /\ \A w \in Winners(id) :
           /\ doc.resolvedBy = reqs[w].user
           /\ doc.status \in {"resolved", "out-of-scope", "permanent-resolved"}
      /\ Winners(id) = {} => doc.resolvedBy = Undefined
      /\ ( /\ \E a \in Settled(id) : reqs[a].seen = "in-progress"
           /\ doc.rejectedBy = Undefined
           /\ doc.outOfScopeBy = Undefined
           /\ doc.permanentlyResolvedBy = Undefined ) =>
           /\ Cardinality(Winners(id)) = 1
           /\ doc.status = "resolved"

\* the resolutions of both supervisors arrived while the report was in
\* progress; that of "s2" succeeded and that of "s1" failed
C13_Witness ==
  \E a, b \in ReqIds :
    /\ reqs[a].kind = "resolve" /\ reqs[a].user = "s1"
    /\ reqs[b].kind = "resolve" /\ reqs[b].user = "s2"
    /\ reqs[a].target = reqs[b].target
    /\ reqs[a].seen = "in-progress" /\ reqs[b].seen = "in-progress"
    /\ reqs[a].res.code = "STALE_STATE" /\ reqs[b].res.status = 200
    /\ reports[reqs[a].target].status = "resolved"
    /\ reports[reqs[a].target].resolvedBy = "s2"

\* the lifecycle graph of section 4.4
Edges ==
  {<<"pending", "in-progress">>, <<"in-progress", "resolved">>,
   <<"in-progress", "rejected">>, <<"pending", "out-of-scope">>,
   <<"in-progress", "out-of-scope">>, <<"resolved", "out-of-scope">>,
   <<"resolved", "permanent-resolved">>}

\* C14: every step that changes the status of a report follows an edge of
\* the lifecycle graph: it never leads to pending, never leaves rejected,
\* out-of-scope or permanent-resolved, and leads to permanent-resolved
\* from resolved only.
C14_Edges ==
  [][\A id \in ReqIds :
       LET old == reports[id].status
           new == reports'[id].status
       IN  (old \in Statuses /\ new \in Statuses /\ old # new) =>
             /\ <<old, new>> \in Edges
             /\ new # "pending"
             /\ old \notin {"rejected", "out-of-scope", "permanent-resolved"}
             /\ new = "permanent-resolved" => old = "resolved"]_vars

\* a report that went from pending to permanent-resolved by three requests
\* and on which a fourth, an out-of-scope mark with its reason that arrived
\* when the report was permanent-resolved, was refused
C14_Witness ==
  \E r \in ReqIds :
    /\ reqs[r].kind = "status" /\ reqs[r].seen = "permanent-resolved"
    /\ reqs[r].body.status = "out-of-scope" /\ reqs[r].body.reason = "why"
    /\ reqs[r].res.code = "STALE_STATE"
    /\ reports[reqs[r].target].status = "permanent-resolved"
    /\ reports[reqs[r].target].outOfScopeBy = Undefined

\* C15: a rejected report has a non-empty rejection reason and a rejecter,
\* and every actor a report records (assignedTo, resolvedBy, rejectedBy,
\* outOfScopeBy, permanentlyResolvedBy) comes with the time it acted.
C15_Metadata ==
  \A id \in ReqIds :
    LET doc == reports[id]
    IN  doc # NoReport =>
          /\ doc.status = "rejected" =>
               ~Falsy(doc.rejectionReason) /\ doc.rejectedBy # Undefined
          /\ doc.assignedTo # Undefined => doc.assignedAt # Undefined
          /\ doc.resolvedBy # Undefined => doc.resolvedAt # Undefined
          /\ doc.rejectedBy # Undefined => doc.rejectedAt # Undefined
          /\ doc.outOfScopeBy # Undefined => doc.outOfScopeAt # Undefined
          /\ doc.permanentlyResolvedBy # Undefined =>
               doc.permanentlyResolvedAt # Undefined

\* a report assigned to "s2" and rejected by "s1", with the reason and both
\* times
C15_Witness ==
  \E id \in ReqIds :
    /\ reports[id] # NoReport
    /\ reports[id].status = "rejected"
    /\ reports[id].rejectionReason = "why"
    /\ reports[id].rejectedBy = "s1" /\ reports[id].rejectedAt = Now
    /\ reports[id].assignedTo = "s2" /\ reports[id].assignedAt = Now

\* the request of a supervisor asks for something the document does not
\* permit: no operation at all, an operation without its evidence, one that
\* is no edge from the status of the document, or an assignment the
\* document already shows
Unfit(q, doc) ==
  LET op == OpOfRequest(q)
  IN  \/ op \notin LifecycleOps
      \/ /\ op = "resolve"
         /\ \E x \in {q.body.image, q.body.location, q.body.address} :
              x \in {Undefined, ""}
      \/ op \in {"reject", "out-of-scope"} /\ q.body.reason \in {Undefined, ""}
      \/ /\ op \in LifecycleOps
         /\ <<doc.status, OpStatus(op)>> \notin Edges
         /\ ~(op = "assign" /\ doc.status = "in-progress")
      \/ op = "assign" /\ doc.status = "in-progress" /\ doc.assignedTo = q.user

\* C16: the step that ends a supervisor's request which the document does
\* not permit (wrong status, evidence missing, already satisfied) ends it
\* with a validation failure and changes no report; a request ends with
\* success only when the document permitted it.
C16_RefusedUnchanged ==
  [][\A r \in ReqIds :
       LET q == reqs'[r]
       IN  ( /\ reqs[r].pc # "done" /\ q.pc = "done"
             /\ q.kind \in {"status", "resolve"}
             /\ Role(q.user) = "supervisor"
             /\ reports[q.target] # NoReport ) =>
             /\ Unfit(q, reports[q.target]) =>
                  /\ q.res.status \in {400, 409}
                  /\ q.res.code \in {"INVALID_STATUS", "MISSING_EVIDENCE", "STALE_STATE"}
                  /\ reports' = reports
             /\ ~Unfit(q, reports[q.target]) =>
                  q.res.status = 200 /\ reports' # reports]_vars

\* a report in progress, assigned to "s1", on which a second assignment to
\* "s1" and a rejection without a reason were both refused
C16_Witness ==
  \E a, b \in ReqIds :
    /\ reqs[a].kind = "status" /\ reqs[a].user = "s1"
    /\ reqs[a].body.status = "in-progress" /\ reqs[a].seen = "in-progress"
    /\ reqs[a].res.code = "STALE_STATE"
    /\ reqs[b].kind = "status" /\ reqs[b].body.status = "rejected"
    /\ reqs[b].res.code = "MISSING_EVIDENCE"
    /\ reqs[b].res.missing = <<"reason">>
    /\ reports[reqs[a].target].status = "in-progress"
    /\ reports[reqs[a].target].assignedTo = "s1"
    /\ reports[reqs[a].target].rejectedBy = Undefined

\* C17: a status update or a resolution asked by a user whose role is not
\* supervisor is answered 403 "Access denied" on arrival, never reaches the
\* handler and changes no report; and every step that changes a report is
\* the update of a request of a supervisor.
C17_SupervisorOnly ==
  [][/\ \A r \in ReqIds :
          LET q == reqs'[r]
          IN  (q.kind \in {"status", "resolve"} /\ Role(q.user) # "supervisor") =>
                /\ q.pc = "done"
                /\ q.res.status = 403 /\ q.res.error = "Access denied"
                /\ reqs[r] # q => reports' = reports
     /\ \A id \in ReqIds :
          (reports[id] # NoReport /\ reports'[id] # reports[id]) =>
            \E r \in ReqIds :
              /\ reqs[r].kind \in {"status", "resolve"}
              /\ reqs[r].target = id
              /\ reqs[r].pc = "transition" /\ reqs'[r].pc = "done"
              /\ Role(reqs[r].user) = "supervisor"]_vars

\* a resolution with its evidence, asked by a user who is no supervisor
\* while the report was in progress: access denied, and the report is
\* still in progress with no resolver
C17_Witness ==
  \E r \in ReqIds :
    /\ reqs[r].kind = "resolve" /\ Role(reqs[r].user) = "user"
    /\ reqs[r].body = FullEvidence /\ reqs[r].seen = "in-progress"
    /\ reqs[r].res.status = 403
    /\ reports[reqs[r].target].status = "in-progress"
    /\ reports[reqs[r].target].resolvedBy = Undefined

---------------------------------------------------------------------------
(* Claims about the deadline of the call (specification SpecDeadline) *)

\* C12: a call that reached the upstream service and whose 30 s have passed
\* before it ended was aborted: it is over and threw SERVICE_TIMEOUT; and a
\* call that is over has a verdict or one of the typed failures.
C12_Deadline ==
  \A r \in ReqIds :
    LET q == reqs[r]
    IN  q.fetches = 1 =>
          /\ q.overdue => q.pc = "done" /\ q.thrown = "SERVICE_TIMEOUT"
          /\ q.pc = "done" =>
               \/ q.classification # NoVerdict
               \/ q.thrown \in {ClassifyError(f) : f \in Failures}

---------------------------------------------------------------------------
(* Claims about the cache (specification SpecCache) *)

\* C9: a call of classifyImage made while the verdict of an earlier
\* successful call for the same image is less than the TTL old makes no
\* upstream call and returns that verdict.
C9_ServedWithinTtl ==
  \A b \in ReqIds :
    (reqs[b].classified /\ reqs[b].live # {}) =>
      /\ reqs[b].fetches = 0
      /\ \A a \in reqs[b].live : reqs[b].classification = reqs[a].classification

\* the calls whose verdict, for an image of the same bytes as image, was
\* cached less than the TTL ago
LiveForBytes(image) ==
  {timers[i].by :
     i \in {j \in 1..Len(timers) :
              reqs[timers[j].by].body.image.payload = image.payload}}

\* C19: a call that arrives while the verdict of an image of the same
\* decoded bytes, with whatever data-URL prefix, is less than the TTL old
\* has the fingerprint of that image, makes no upstream call and returns
\* that verdict.
C19_KeyOfBytes ==
  [][\A b \in ReqIds :
       (reqs[b].kind = "none" /\ reqs'[b].kind = "test") =>
         \A a \in LiveForBytes(reqs'[b].body.image) :
           /\ Fingerprint(reqs'[b].body.image) = Fingerprint(reqs[a].body.image)
           /\ reqs'[b].fetches = 0
           /\ reqs'[b].classification = reqs[a].classification]_vars

\* C20: a verdict that was cached less than the TTL ago is in the cache
\* (no removal scheduled by an earlier write has taken it out), and the
\* cache holds no entry whose TTL has elapsed.
C20_FullTtl ==
  /\ \A i \in 1..Len(timers) :
       /\ Has(timers[i].hash)
       /\ imageCache[timers[i].hash] = reqs[timers[i].by].classification
  /\ \A h \in DOMAIN imageCache : \E i \in 1..Len(timers) : timers[i].hash = h

---------------------------------------------------------------------------
(* Claims about deletion (specification SpecDelete) *)

\* C6: a deletion that got past the checks of the handler was asked by the
\* owner of the report while the report was pending.
C6_DeleteOnlyOwnPending ==
  \A d \in ReqIds :
    LET q == reqs[d]
    IN  (q.kind = "delete" /\ q.res.status = 200) =>
          /\ q.doc.user = q.user
          /\ q.doc.status = "pending"

\* the points of a category, as the specification of the award gives them
CategoryPoints(category) ==
  CASE category = "standard" -> 10
    [] category = "hazardous" -> 20
    [] category = "large" -> 15

RECURSIVE SumDelta(_, _)
\* the sum of the point deltas the requests 1..n of user u have applied
SumDelta(u, n) ==
  IF n = 0 THEN 0
  ELSE SumDelta(u, n - 1) + (IF reqs[n].user = u THEN reqs[n].delta ELSE 0)

\* the requests of kind k of user u that applied a point delta
Applied(u, k) ==
  {r \in ReqIds : reqs[r].user = u /\ reqs[r].kind = k /\ reqs[r].delta # 0}

\* C7: a deletion deducts the points of the report's category (standard 10,
\* hazardous 20, large 15), which are the points the creation of that
\* report awarded, and one from reportCount: the award and the deduction
\* of one report sum to zero, and the user's points and reportCount are the
\* sums of the deltas applied.
C7_DeleteReversesAward ==
  /\ \A d \in ReqIds :
       (reqs[d].kind = "delete" /\ reqs[d].attempts = 1) =>
         LET c == reqs[d].target
         IN  /\ reqs[c].kind = "submit" /\ Persisted(c)
             /\ reqs[d].doc.reportType = FinalReportType(reqs[c].body.reportType)
             /\ reqs[d].delta = 0 - CategoryPoints(reqs[d].doc.reportType)
             /\ reqs[c].delta # 0 => reqs[c].delta + reqs[d].delta = 0
  /\ \A c \in ReqIds :
       (reqs[c].kind = "submit" /\ reqs[c].delta # 0) =>
         reqs[c].delta = CategoryPoints(FinalReportType(reqs[c].body.reportType))
  /\ \A u \in Users :
       /\ users[u].points = SumDelta(u, Cardinality(ReqIds))
       /\ users[u].reportCount =
            Cardinality(Applied(u, "submit")) - Cardinality(Applied(u, "delete"))

\* a report of category large was created and deleted: 15 points awarded,
\* 15 deducted, and the user is back at no points and no report
C7_Witness ==
  \E c, d \in ReqIds :
    /\ reqs[c].kind = "submit" /\ reqs[c].body.reportType = "large"
    /\ reqs[c].delta = 15
    /\ reqs[d].kind = "delete" /\ reqs[d].target = c /\ reqs[d].res.status = 200
    /\ reqs[d].delta = 0 - 15
    /\ users[reqs[c].user].points = 0 /\ users[reqs[c].user].reportCount = 0
    /\ reports[c] = NoReport

---------------------------------------------------------------------------
(* Claims about what the operations leave behind (specification SpecDelete) *)

\* no submission and no deletion is in progress, and no upload is still
\* running behind a submission that was answered
Quiescent ==
  \A r \in ReqIds :
    /\ reqs[r].pc \in {"idle", "done"}
    /\ reqs[r].upload # "inflight"

\* the persisted reports whose image is the stored object o
ReferencedBy(o) ==
  {id \in ReqIds : reports[id] # NoReport /\ reports[id].publicId = o}

\* C21: when no submission or deletion is in progress, every object in the
\* object storage is referenced by exactly one persisted report, and a
\* submission that ended in a failure has left no object in the storage.
C21_NoOrphanObject ==
  Quiescent =>
    /\ \A o \in storage : Cardinality(ReferencedBy(o)) = 1
    /\ \A r \in ReqIds :
         (reqs[r].kind = "submit" /\ reqs[r].res.status # 201) => r \notin storage

---------------------------------------------------------------------------
(* Claims about the point accounting (specification SpecAccount) *)

\* the persisted reports of user u
Owned(u) == {id \in ReqIds : reports[id] # NoReport /\ reports[id].user = u}

RECURSIVE SumOwned(_, _)
\* the sum of the points of the categories of the persisted reports 1..n
\* of user u
SumOwned(u, n) ==
  IF n = 0 THEN 0
  ELSE SumOwned(u, n - 1)
         + (IF n \in Owned(u) THEN CategoryPoints(reports[n].reportType) ELSE 0)

\* the totals of every user are those of the user's persisted reports
TotalsMatch ==
  \A u \in Users :
    /\ users[u].reportCount = Cardinality(Owned(u))
    /\ users[u].points = SumOwned(u, Cardinality(ReqIds))

\* the deletions that deducted the points of report id
Deducted(id) ==
  {d \in ReqIds : reqs[d].kind = "delete" /\ reqs[d].target = id
                  /\ reqs[d].attempts = 1}

\* no update was lost: the increment of every persisted report succeeded,
\* every deletion that deducted points removed its report, and no report
\* had its points deducted by two deletions
NoLostUpdate ==
  /\ \A c \in ReqIds :
       (Persisted(c) /\ reqs[c].pc = "done") => reqs[c].delta # 0
  /\ \A d \in ReqIds :
       (reqs[d].kind = "delete" /\ reqs[d].attempts = 1 /\ reqs[d].pc = "done")
         => reqs[d].res.status = 200
  /\ \A id \in ReqIds : Cardinality(Deducted(id)) <= 1

\* the reports of user u that were saved, persisted still or removed since
Saved(u) == {c \in ReqIds : Persisted(c) /\ reqs[c].user = u}

\* the points of the category report c was saved with
PointsOf(c) == CategoryPoints(FinalReportType(reqs[c].body.reportType))

\* the point updates lost on report c: one when its increment failed, and
\* one for every deduction that no removal of the report accounts for (a
\* deduction whose document removal failed, and every deduction but one of
\* overlapping deletions)
Lost(c) ==
  (IF reqs[c].delta = 0 THEN 1 ELSE 0)
    + Cardinality(Deducted(c)) - (IF reports[c] = NoReport THEN 1 ELSE 0)

RECURSIVE LostCount(_, _)
\* the number of updates lost on the saved reports 1..n of user u
LostCount(u, n) ==
  IF n = 0 THEN 0
  ELSE LostCount(u, n - 1) + (IF n \in Saved(u) THEN Lost(n) ELSE 0)

RECURSIVE LostPoints(_, _)
\* the points of the updates lost on the saved reports 1..n of user u
LostPoints(u, n) ==
  IF n = 0 THEN 0
  ELSE LostPoints(u, n - 1)
         + (IF n \in Saved(u) THEN Lost(n) * PointsOf(n) ELSE 0)

\* C22 as stated: in every state in which no operation is in progress,
\* whatever failed or overlapped before, the user's reportCount is the
\* number of the user's persisted reports and the user's points are the
\* sum of the points of their categories.
C22_TotalsAlways == Quiescent => TotalsMatch

\* C22 as amended: in every state in which no operation is in progress,
\* whatever failed or overlapped before, the user's reportCount is the
\* number of the user's persisted reports less the number of lost updates,
\* and the user's points are the sum of the points of the categories of
\* those reports less the category points of every lost update, where a
\* lost update is a failed increment of a saved report, a deduction whose
\* document removal failed, or the second deduction of two overlapping
\* deletions of one report; no update is ever lost on a report that is
\* persisted and had none, so the totals are those of the persisted
\* reports exactly when no update was lost.
C22_TotalsLessLost ==
  Quiescent =>
    /\ \A u \in Users :
         /\ users[u].reportCount =
              Cardinality(Owned(u)) - LostCount(u, Cardinality(ReqIds))
         /\ users[u].points =
              SumOwned(u, Cardinality(ReqIds)) - LostPoints(u, Cardinality(ReqIds))
    /\ \A c \in ReqIds : Persisted(c) => Lost(c) >= 0
    /\ TotalsMatch <=> NoLostUpdate

\* a hazardous report was created with its 20 points and two overlapping
\* deletions both read it, both deducted and both answered 200: no report
\* persists and the user is left with 20 points and one report below zero
C22_Witness ==
  /\ Quiescent
  /\ \E c, d, e \in ReqIds :
       /\ d # e
       /\ Persisted(c) /\ reqs[c].body.reportType = "hazardous"
       /\ reqs[c].delta = 20 /\ reports[c] = NoReport
       /\ reqs[d].kind = "delete" /\ reqs[d].target = c
       /\ reqs[e].kind = "delete" /\ reqs[e].target = c
       /\ reqs[d].delta = 0 - 20 /\ reqs[e].delta = 0 - 20
       /\ reqs[d].res.status = 200 /\ reqs[e].res.status = 200
  /\ users["u1"].points = 0 - 20
  /\ users["u1"].reportCount = 0 - 1

=============================================================================
